---- MODULE Spec2Model ----
(***************************************************************************)
(* Model of the document indexing and retrieval pipeline of                *)
(* smart-doc-assistant: UnifiedDataProcessor (04_unified_processor.py),    *)
(* ConfluenceProcessor (03_extract_confluence.py) and the handlers of the  *)
(* Streamlit front end (06_streamlit_app.py) that drive them.              *)
(*                                                                         *)
(* A text is a sequence of one-character strings.  A FAISS vector store is *)
(* a record [d, vecs, i2d, docs]: the flat index (dimension d, the vectors *)
(* in insertion order), index_to_docstore_id and the docstore.             *)
(***************************************************************************)
EXTENDS Integers, Sequences, FiniteSets, TLC

(***************************************************************************)
(* Bounds of the model.                                                    *)
(***************************************************************************)
MaxTextLen == 5
MaxChunkSize == 3
MaxIds == 2
EmbedDim == 2
TinyChunkSize == 50

(***************************************************************************)
(* Program constants.                                                      *)
(***************************************************************************)
ChunkOverlap == 100
DefaultChunkSize == 500
MinContentLen == 10
DefaultK == 5

NL == "\n"
None == "None"

\* the id of a Document no store has taken yet
NoId == 0 - 1

\* vectorstore = None
NoneStore == [exists |-> FALSE, d |-> 0, vecs |-> <<>>, i2d |-> <<>>, docs |-> <<>>]

(***************************************************************************)
(* RecursiveCharacterTextSplitter(chunk_size, chunk_overlap), as the       *)
(* ingestion paths construct and call it (keep_separator = True,           *)
(* strip_whitespace = True, length_function = len, separators              *)
(* "\n\n", "\n", " ", "").                                                 *)
(***************************************************************************)
Separators == << <<NL, NL>>, <<NL>>, <<" ">>, <<>> >>

IsSpace(c) == c \in {" ", NL, "\t"}

RECURSIVE LStrip(_)
LStrip(t) == IF t # <<>> /\ IsSpace(Head(t)) THEN LStrip(Tail(t)) ELSE t

RECURSIVE RStrip(_)
RStrip(t) ==
    IF t # <<>> /\ IsSpace(t[Len(t)]) THEN RStrip(SubSeq(t, 1, Len(t) - 1)) ELSE t

\* str.strip()
Strip(t) == RStrip(LStrip(t))

MatchAt(t, sep, i) ==
    /\ i + Len(sep) - 1 <= Len(t)
    /\ SubSeq(t, i, i + Len(sep) - 1) = sep

\* re.search(separator, text) for a literal, non-empty separator
Contains(t, sep) == \E i \in 1..Len(t) : MatchAt(t, sep, i)

\* the position of the leftmost match at or after i, 0 when there is none
RECURSIVE MatchFrom(_, _, _)
MatchFrom(t, sep, i) ==
    IF i + Len(sep) - 1 > Len(t) THEN 0
    ELSE IF MatchAt(t, sep, i) THEN i
    ELSE MatchFrom(t, sep, i + 1)

FirstMatch(t, sep) == MatchFrom(t, sep, 1)

\* the texts between the successive matches of sep, left to right
RECURSIVE Pieces(_, _)
Pieces(t, sep) ==
    LET i == FirstMatch(t, sep)
    IN  IF i = 0 THEN <<t>>
        ELSE <<SubSeq(t, 1, i - 1)>> \o Pieces(SubSeq(t, i + Len(sep), Len(t)), sep)

\* _split_text_with_regex(text, separator, keep_separator=True): every
\* separator stays at the start of the piece that follows it; empty pieces
\* are dropped; the empty separator splits into characters.
SplitTextWithRegex(t, sep) ==
    IF sep = <<>> THEN [i \in 1..Len(t) |-> <<t[i]>>]
    ELSE LET ps == Pieces(t, sep)
             all == <<ps[1]>> \o [i \in 1..(Len(ps) - 1) |-> sep \o ps[i + 1]]
         IN  SelectSeq(all, LAMBDA s : s # <<>>)

RECURSIVE Concat(_)
Concat(ss) == IF ss = <<>> THEN <<>> ELSE Head(ss) \o Concat(Tail(ss))

RECURSIVE SumLen(_)
SumLen(ss) == IF ss = <<>> THEN 0 ELSE Len(Head(ss)) + SumLen(Tail(ss))

\* _join_docs: join (the join separator is "" when separators are kept),
\* strip, and None (here: no chunk) when nothing is left
JoinDocs(cur) ==
    LET text == Strip(Concat(cur)) IN IF text = <<>> THEN <<>> ELSE <<text>>

\* PopFront with the overlap test off by one (>= for >): one split too
\* many is dropped, so less than the overlap is carried over
RECURSIVE PopFrontOffByOne(_, _, _, _)
PopFrontOffByOne(cur, len, cs, ov) ==
    LET total == SumLen(cur)
    IN  IF total > 0 /\ (total >= ov \/ total + len > cs)
        THEN PopFrontOffByOne(Tail(cur), len, cs, ov)
        ELSE cur

\* the while loop of _merge_splits: drop splits from the front of
\* current_doc until what is kept is no longer than the overlap and the next
\* split fits
RECURSIVE PopFront(_, _, _, _)
PopFront(cur, len, cs, ov) ==
    LET total == SumLen(cur)
    IN  IF total > ov \/ (total + len > cs /\ total > 0)
        THEN PopFront(Tail(cur), len, cs, ov)
        ELSE cur

\* _merge_splits(splits, separator = ""), from split i on, with the chunks
\* emitted so far and current_doc
RECURSIVE MergeSplitsFrom(_, _, _, _, _, _)
MergeSplitsFrom(splits, i, docs, cur, cs, ov) ==
    IF i > Len(splits) THEN docs \o JoinDocs(cur)
    ELSE LET d == splits[i]
             over == SumLen(cur) + Len(d) > cs
             docs2 == IF over /\ cur # <<>> THEN docs \o JoinDocs(cur) ELSE docs
             cur2 == IF over /\ cur # <<>> THEN PopFront(cur, Len(d), cs, ov) ELSE cur
         IN  MergeSplitsFrom(splits, i + 1, docs2, Append(cur2, d), cs, ov)

\* _merge_splits that carries nothing over from one chunk to the next
MergeSplitsNoOverlap(splits, cs, ov) == MergeSplitsFrom(splits, 1, <<>>, <<>>, cs, 0)

MergeSplits(splits, cs, ov) == MergeSplitsFrom(splits, 1, <<>>, <<>>, cs, ov)

\* the separator _split_text picks: the first one found in the text (the
\* empty one is always found), and the ones left for the recursion
RECURSIVE PickSep(_, _, _)
PickSep(t, seps, i) ==
    IF i > Len(seps) THEN [sep |-> seps[Len(seps)], rest |-> <<>>]
    ELSE IF seps[i] = <<>> THEN [sep |-> <<>>, rest |-> <<>>]
    ELSE IF Contains(t, seps[i]) THEN [sep |-> seps[i], rest |-> SubSeq(seps, i + 1, Len(seps))]
    ELSE PickSep(t, seps, i + 1)

\* RecursiveCharacterTextSplitter._split_text(text, separators)
RECURSIVE SplitTextRec(_, _, _, _)
RECURSIVE SplitLoop(_, _, _, _, _, _, _)
SplitLoop(splits, i, good, final, rest, cs, ov) ==
    IF i > Len(splits)
    THEN IF good # <<>> THEN final \o MergeSplits(good, cs, ov) ELSE final
    ELSE LET s == splits[i]
         IN  IF Len(s) < cs
             THEN SplitLoop(splits, i + 1, Append(good, s), final, rest, cs, ov)
             ELSE LET flushed == IF good # <<>> THEN final \o MergeSplits(good, cs, ov)
                                 ELSE final
                      sub == IF rest = <<>> THEN <<s>> ELSE SplitTextRec(s, rest, cs, ov)
                  IN  SplitLoop(splits, i + 1, <<>>, flushed \o sub, rest, cs, ov)

SplitTextRec(t, seps, cs, ov) ==
    LET p == PickSep(t, seps, 1)
    IN  SplitLoop(SplitTextWithRegex(t, p.sep), 1, <<>>, <<>>, p.rest, cs, ov)

\* TextSplitter.__init__ raises ValueError when chunk_overlap > chunk_size
SplitterValid(cs, ov) == ov <= cs

\* split_text(text): the chunks of one text
SplitText(t, cs, ov) == SplitTextRec(t, Separators, cs, ov)

(***************************************************************************)
(* Documents and the embedding model.  A Document is a record              *)
(* [id, page_content, metadata].  The embedding model is a fixed function  *)
(* of the text (same text, same vector); EmbedDim stands for the model's   *)
(* output dimension.                                                       *)
(***************************************************************************)
Range(f) == {f[x] : x \in DOMAIN f}

EmbedChars == <<"t", "a", "b", "e", "o", "i">>

CountChar(t, c) == Cardinality({p \in 1..Len(t) : t[p] = c})

\* embeddings.embed_documents / embed_query: one vector per text
Embed(t, dim) == [i \in 1..dim |-> CountChar(t, EmbedChars[i]) % 4]

Document(id, text, meta) == [id |-> id, page_content |-> text, metadata |-> meta]

\* split_documents(documents): the chunks of every document, in order, each
\* with its document's metadata
RECURSIVE SplitDocuments(_, _, _)
SplitDocuments(documents, cs, ov) ==
    IF documents = <<>> THEN <<>>
    ELSE LET doc == Head(documents)
             texts == SplitText(doc.page_content, cs, ov)
         IN  [i \in 1..Len(texts) |-> Document(NoId, texts[i], doc.metadata)]
                 \o SplitDocuments(Tail(documents), cs, ov)

(***************************************************************************)
(* langchain's FAISS vector store over a flat L2 index.                    *)
(***************************************************************************)
\* FAISS.from_documents(chunks, embeddings): raises when the embedding call
\* fails and when there is no chunk (no first vector to size the index by)
FromDocumentsRaises(chunks, embedOk) == ~embedOk \/ chunks = <<>>

\* from_documents that gives every chunk the id of the first
from_documents_one_id(chunks, ids, dim) ==
    [exists |-> TRUE,
     d    |-> dim,
     vecs |-> [i \in 1..Len(chunks) |-> Embed(chunks[i].page_content, dim)],
     i2d  |-> [i \in 1..Len(ids) |-> ids[1]],
     docs |-> [x \in {ids[i] : i \in (DOMAIN ids) \cap {1}} |->
                  Document(x, chunks[1].page_content, chunks[1].metadata)]]

\* FAISS.from_documents(chunks, embeddings): fresh uuid4 ids, one per chunk
from_documents(chunks, ids, dim) ==
    [exists |-> TRUE,
     d    |-> dim,
     vecs |-> [i \in 1..Len(chunks) |-> Embed(chunks[i].page_content, dim)],
     i2d  |-> ids,
     docs |-> [x \in Range(ids) |->
                  LET i == CHOOSE j \in 1..Len(ids) : ids[j] = x
                  IN  Document(x, chunks[i].page_content, chunks[i].metadata)]]

\* merge_from that skips a record of target whose text and metadata the
\* store already holds (a merge that deduplicates by content)
merge_from_dedup(self, target) ==
    LET held == {[t |-> self.docs[x].page_content, m |-> self.docs[x].metadata] :
                    x \in DOMAIN self.docs}
        keep == SelectSeq([i \in 1..Len(target.i2d) |-> i],
                    LAMBDA i : [t |-> target.docs[target.i2d[i]].page_content,
                                m |-> target.docs[target.i2d[i]].metadata] \notin held)
        kept == {target.i2d[keep[j]] : j \in 1..Len(keep)}
    IN  IF self.d # target.d THEN self
        ELSE [exists |-> TRUE,
              d    |-> self.d,
              vecs |-> self.vecs \o [j \in 1..Len(keep) |-> target.vecs[keep[j]]],
              i2d  |-> self.i2d \o [j \in 1..Len(keep) |-> target.i2d[keep[j]]],
              docs |-> self.docs @@ [x \in kept |-> target.docs[x]]]

\* merge_from that puts target in the place of the store
merge_from_replacing(self, target) ==
    IF self.d # target.d THEN self ELSE target

\* merge_from that takes the vectors of target and leaves the docstore and
\* index_to_docstore_id as they were
merge_from_index_only(self, target) ==
    IF self.d # target.d THEN self
    ELSE [self EXCEPT !.vecs = @ \o target.vecs]

\* merge_from without the comparison of dimensions
merge_from_unchecked(self, target) ==
    [exists |-> TRUE,
     d    |-> self.d,
     vecs |-> self.vecs \o target.vecs,
     i2d  |-> self.i2d \o target.i2d,
     docs |-> self.docs @@ target.docs]

\* FAISS.merge_from(target): index.merge_from raises on a different
\* dimension before anything is changed; docstore.add raises on an id the
\* docstore already holds, after the index has taken the vectors
MergeRaises(self, target) ==
    \/ self.d # target.d
    \/ (DOMAIN self.docs) \cap (DOMAIN target.docs) # {}

merge_from(self, target) ==
    IF self.d # target.d THEN self
    ELSE IF (DOMAIN self.docs) \cap (DOMAIN target.docs) # {}
    THEN [self EXCEPT !.vecs = @ \o target.vecs]
    ELSE [exists |-> TRUE,
          d    |-> self.d,
          vecs |-> self.vecs \o target.vecs,
          i2d  |-> self.i2d \o target.i2d,
          docs |-> self.docs @@ target.docs]

\* IndexFlatL2 reports the squared Euclidean distance
RECURSIVE SumSq(_, _, _)
SumSq(u, v, i) ==
    IF i > Len(u) THEN 0 ELSE (u[i] - v[i]) * (u[i] - v[i]) + SumSq(u, v, i + 1)

L2(u, v) == SumSq(u, v, 1)

\* index.search(vector, k): the positions of the k nearest vectors, nearest
\* first, an equal distance keeping the earlier position first
RECURSIVE Distances(_, _, _)
Distances(vecs, qv, i) ==
    IF i > Len(vecs) THEN <<>> ELSE <<L2(vecs[i], qv)>> \o Distances(vecs, qv, i + 1)

\* Nearest that prefers the latest of equals
NearestLatest(dist, taken) ==
    CHOOSE p \in (1..Len(dist)) \ taken :
        \A q \in (1..Len(dist)) \ taken :
            dist[p] < dist[q] \/ (dist[p] = dist[q] /\ p >= q)

\* the position of the nearest vector not yet taken, the earliest of equals
Nearest(dist, taken) ==
    CHOOSE p \in (1..Len(dist)) \ taken :
        \A q \in (1..Len(dist)) \ taken :
            dist[p] < dist[q] \/ (dist[p] = dist[q] /\ p <= q)

RECURSIVE TakeNearest(_, _, _)
TakeNearest(dist, taken, m) ==
    IF m = 0 THEN <<>>
    ELSE LET p == Nearest(dist, taken)
         IN  <<p>> \o TakeNearest(dist, taken \cup {p}, m - 1)

\* IndexSearch that stops one short of the whole index
IndexSearchOneShort(vecs, qv, k) ==
    TakeNearest(Distances(vecs, qv, 1), {}, IF k < Len(vecs) THEN k ELSE Len(vecs) - 1)

IndexSearch(vecs, qv, k) ==
    TakeNearest(Distances(vecs, qv, 1), {}, IF k < Len(vecs) THEN k ELSE Len(vecs))

\* similarity_search_with_score raises: faiss asserts k > 0 and the query's
\* dimension; a position without docstore id or an id without Document
SearchRaises(vs, qv, k) ==
    \/ k <= 0
    \/ Len(qv) # vs.d
    \/ LET ps == IndexSearch(vs.vecs, qv, k)
       IN  \E r \in 1..Len(ps) :
               \/ ps[r] > Len(vs.i2d)
               \/ vs.i2d[ps[r]] \notin DOMAIN vs.docs

\* similarity_search_with_score(query, k): (Document, score) pairs
similarity_search_with_score(vs, qv, k) ==
    LET ps == IndexSearch(vs.vecs, qv, k)
    IN  [r \in 1..Len(ps) |->
            [doc |-> vs.docs[vs.i2d[ps[r]]], score |-> L2(vs.vecs[ps[r]], qv)]]

(***************************************************************************)
(* Persistence: save_local writes two files, index.faiss (the flat index)  *)
(* and index.pkl (docstore and index_to_docstore_id); load_local reads     *)
(* them back.  A file is absent or ok (with its content).                  *)
(***************************************************************************)
NoFile == [state |-> "absent"]

IndexFile(vs) == [state |-> "ok", d |-> vs.d, vecs |-> vs.vecs]

PklFile(vs) == [state |-> "ok", docs |-> vs.docs, i2d |-> vs.i2d]

\* save_local(path): write_index then the pickle dump; under the fault
\* "index" write_index raises and nothing is written
save_local(vs, faiss, pkl, fault) ==
    IF fault = "index" THEN [faiss |-> faiss, pkl |-> pkl, ok |-> FALSE]
    ELSE [faiss |-> IndexFile(vs), pkl |-> PklFile(vs), ok |-> TRUE]

LoadRaises(faiss, pkl) == faiss.state # "ok" \/ pkl.state # "ok"

\* load_local that reads the vectors back in another order than saved
load_local_reordered(faiss, pkl) ==
    [exists |-> TRUE, d |-> faiss.d,
     vecs |-> [i \in 1..Len(faiss.vecs) |-> faiss.vecs[Len(faiss.vecs) + 1 - i]],
     i2d |-> pkl.i2d, docs |-> pkl.docs]

\* FAISS.load_local(path, embeddings, allow_dangerous_deserialization=True)
load_local(faiss, pkl) ==
    [exists |-> TRUE, d |-> faiss.d, vecs |-> faiss.vecs, i2d |-> pkl.i2d,
     docs |-> pkl.docs]

(***************************************************************************)
(* State.                                                                  *)
(*   vectorstore           UnifiedDataProcessor.vectorstore                *)
(*   diskDir               whether the directory vector_store/ exists      *)
(*   diskFaiss, diskPkl    index.faiss and index.pkl under vector_store/   *)
(*   confluence_processor  ConfluenceProcessor's available, error_message  *)
(*                         and whether its embeddings attribute is set     *)
(*   confEnv               what the Confluence environment answers         *)
(*   nextId                the ids handed out so far (uuid4: never reused) *)
(*   lastOp                the last call: its arguments, what happened     *)
(*                         inside it and what the caller got back          *)
(*   thread                per session, where its call stands and the      *)
(*                         call's local variables                          *)
(***************************************************************************)
VARIABLES vectorstore, diskDir, diskFaiss, diskPkl, confluence_processor,
          confEnv, nextId, lastOp

\* the chunker's own variables (see SpecChunk)
VARIABLES cText, cSize, cOverlap, cChunks, cDone

\* the sessions' threads over the one cached processor (see SpecConc)
VARIABLE thread

pvars == <<vectorstore, diskDir, diskFaiss, diskPkl, confluence_processor,
           confEnv, nextId, lastOp>>

cvars == <<cText, cSize, cOverlap, cChunks, cDone>>

vars == <<pvars, cvars, thread>>

(***************************************************************************)
(* ConfluenceProcessor.                                                    *)
(***************************************************************************)
ConfEnvs == {"no_credentials", "connection_error", "no_spaces", "ok", "model_error"}

\* ConfluenceProcessor.__init__ under each environment
ConfluenceInit(env) ==
    CASE env = "no_credentials" ->
            [available |-> FALSE, error_message |-> "Missing Confluence credentials",
             embeddings |-> FALSE]
      [] env = "connection_error" ->
            [available |-> FALSE, error_message |-> "Connection failed",
             embeddings |-> FALSE]
      [] env = "no_spaces" ->
            [available |-> FALSE, error_message |-> "Unable to fetch spaces",
             embeddings |-> FALSE]
      [] env = "model_error" ->
            [available |-> TRUE, error_message |-> "Connection failed",
             embeddings |-> FALSE]
      [] OTHER ->
            [available |-> TRUE, error_message |-> None, embeddings |-> TRUE]

TitleT == <<"T">>
TitleU == <<"U">>
WikiBody == <<"w", "i", "k", "i", " ", "t", "e", "x", "t">>

\* what get_page_by_id answers, the body already through clean_html_content;
\* any other page id raises
WikiPages ==
    [p1 |-> [title |-> TitleT, content |-> WikiBody, space_key |-> "S"],
     p2 |-> [title |-> TitleU, content |-> <<>>, space_key |-> "S"]]

\* get_page_content(page_id)
GetPageContent(cp, page_id) ==
    IF ~cp.available THEN [found |-> FALSE]
    ELSE IF page_id \notin DOMAIN WikiPages THEN [found |-> FALSE]
    ELSE [found |-> TRUE, title |-> WikiPages[page_id].title, content |-> WikiPages[page_id].content,
          page_id |-> page_id, space_key |-> WikiPages[page_id].space_key]

TitlePrefix == <<"T", "i", "t", "l", "e", ":", " ">>

\* the Documents process_confluence_to_vectorstore builds from page_ids
RECURSIVE ConfluenceDocuments(_, _)
ConfluenceDocuments(cp, page_ids) ==
    IF page_ids = <<>> THEN <<>>
    ELSE LET pd == GetPageContent(cp, Head(page_ids))
             rest == ConfluenceDocuments(cp, Tail(page_ids))
         IN  IF ~pd.found THEN rest
             ELSE <<Document(NoId, TitlePrefix \o pd.title \o <<NL, NL>> \o pd.content,
                             [source |-> "confluence", title |-> pd.title,
                              page_id |-> pd.page_id, space_key |-> pd.space_key,
                              url |-> pd.page_id])>> \o rest

\* process_confluence_to_vectorstore(page_ids, chunk_size):
\* [raised, why, vs]: vs is NoneStore or the new store
ProcessConfluenceToVectorstore(cp, page_ids, chunk_size, ids0, embedOk) ==
    LET documents == ConfluenceDocuments(cp, page_ids)
        chunks == SplitDocuments(documents, chunk_size, ChunkOverlap)
        ids == [i \in 1..Len(chunks) |-> ids0 + i - 1]
    IN  IF ~cp.available THEN [raised |-> FALSE, why |-> "unavailable", vs |-> NoneStore]
        ELSE IF documents = <<>> THEN [raised |-> FALSE, why |-> "no_documents", vs |-> NoneStore]
        ELSE IF ~SplitterValid(chunk_size, ChunkOverlap)
        THEN [raised |-> TRUE, why |-> "split_error", vs |-> NoneStore]
        ELSE IF ~cp.embeddings \/ FromDocumentsRaises(chunks, embedOk)
        THEN [raised |-> TRUE, why |-> "embed_error", vs |-> NoneStore]
        ELSE [raised |-> FALSE, why |-> "ok", vs |-> from_documents(chunks, ids, EmbedDim)]

(***************************************************************************)
(* UnifiedDataProcessor.                                                   *)
(***************************************************************************)
\* load_existing_vectorstore, from __init__ (vectorstore is None before):
\* only index.faiss is looked for; any exception leaves vectorstore None
LoadExistingVectorstore(faiss, pkl) ==
    IF faiss.state = "absent" THEN NoneStore
    ELSE IF LoadRaises(faiss, pkl) THEN NoneStore
    ELSE load_local(faiss, pkl)

\* what happened inside load_existing_vectorstore
LoadOutcome(faiss, pkl) ==
    IF faiss.state # "absent" /\ LoadRaises(faiss, pkl) THEN "load_error" ELSE "ok"

\* save_vectorstore that writes nothing
SaveVectorstoreSkipped(vs, faiss, pkl, fault) ==
    [faiss |-> faiss, pkl |-> pkl, ok |-> TRUE]

\* save_vectorstore: an exception of save_local is caught and printed
SaveVectorstore(vs, faiss, pkl, fault) ==
    IF ~vs.exists THEN [faiss |-> faiss, pkl |-> pkl, ok |-> TRUE]
    ELSE save_local(vs, faiss, pkl, fault)

\* os.path.basename and os.path.splitext(...)[0] on a path of characters
LastIndexOf(t, c) ==
    IF \E i \in 1..Len(t) : t[i] = c
    THEN CHOOSE i \in 1..Len(t) : t[i] = c /\ \A j \in (i + 1)..Len(t) : t[j] # c
    ELSE 0

Basename(path) == SubSeq(path, LastIndexOf(path, "/") + 1, Len(path))

SplitextRoot(name) ==
    LET i == LastIndexOf(name, ".") IN IF i <= 1 THEN name ELSE SubSeq(name, 1, i - 1)

ContentFrom == <<"C", "o", "n", "t", "e", "n", "t", " ", "f", "r", "o", "m", " ">>
DashPage == <<" ", "-", " ", "P", "a", "g", "e", " ">>

\* PdfDocuments that leaves the PyPDFLoader metadata without 'title'
PdfDocumentsUntitled(pdf_path, pages) ==
    [i \in 1..Len(pages) |->
        LET title == SplitextRoot(Basename(pdf_path))
            meta == [source |-> "pdf", file_path |-> pdf_path,
                     file_name |-> Basename(pdf_path),
                     page |-> i, total_pages |-> Len(pages)]
        IN  Document(NoId,
                     IF Len(Strip(pages[i])) < MinContentLen
                     THEN ContentFrom \o title \o DashPage \o <<ToString(i)>>
                     ELSE pages[i],
                     meta)]

\* the pages of one PDF as add_pdf_documents leaves them: metadata set, and a
\* page with fewer than 10 characters of content given a placeholder text
PdfDocuments(pdf_path, pages) ==
    [i \in 1..Len(pages) |->
        LET title == SplitextRoot(Basename(pdf_path))
            meta == [source |-> "pdf", file_path |-> pdf_path,
                     file_name |-> Basename(pdf_path), title |-> title,
                     page |-> i, total_pages |-> Len(pages)]
        IN  Document(NoId,
                     IF Len(Strip(pages[i])) < MinContentLen
                     THEN ContentFrom \o title \o DashPage \o <<ToString(i)>>
                     ELSE pages[i],
                     meta)]

ShortPage == <<"v", "e", "c", "t", "o", "r", " ", "i", "n", "d", "e", "x">>
NotePage == <<"a", "b", "o", "u", "t", " ", "t", "e", "s", "t", "s">>
BlankPage == <<" ", NL>>

PathA == <<"/", "u", "/", "a", ".", "p", "d", "f">>
PathC == <<"/", "u", "/", "c", ".", "p", "d", "f">>
PathP == <<"/", "u", "/", "p", ".", "p", "d", "f">>
PathX == <<"/", "u", "/", "x", ".", "p", "d", "f">>

\* what PyPDFLoader(path).load() answers: the pages' texts; a path that is
\* not here raises
PdfPages == (PathA :> <<ShortPage, NotePage>>) @@ (PathC :> <<BlankPage>>) @@ (PathP :> <<ShortPage>>)

\* the loop of add_pdf_documents without the try around each file: the
\* first file that fails ends the loop and nothing is collected
RECURSIVE AllDocumentsOrNone(_)
AllDocumentsOrNone(pdf_paths) ==
    IF \E i \in 1..Len(pdf_paths) : pdf_paths[i] \notin DOMAIN PdfPages THEN <<>>
    ELSE IF pdf_paths = <<>> THEN <<>>
    ELSE PdfDocuments(Head(pdf_paths), PdfPages[Head(pdf_paths)])
             \o AllDocumentsOrNone(Tail(pdf_paths))

\* the loop of add_pdf_documents: the documents of every file that loads
RECURSIVE AllDocuments(_)
AllDocuments(pdf_paths) ==
    IF pdf_paths = <<>> THEN <<>>
    ELSE LET path == Head(pdf_paths)
             rest == AllDocuments(Tail(pdf_paths))
         IN  IF path \in DOMAIN PdfPages
             THEN PdfDocuments(path, PdfPages[path]) \o rest
             ELSE rest

\* _add_documents_to_vectorstore that embeds chunk by chunk and keeps the
\* chunks embedded before the failure
AddDocumentsChunkByChunk(vs, faiss, pkl, documents, chunk_size, ids0, embedOk, fault) ==
    LET chunks == SplitDocuments(documents, chunk_size, ChunkOverlap)
        ids == [i \in 1..Len(chunks) |-> ids0 + i - 1]
        new == from_documents(chunks, ids, EmbedDim)
        first == from_documents(<<chunks[1]>>, <<ids0>>, EmbedDim)
        same == [vectorstore |-> vs, faiss |-> faiss, pkl |-> pkl, newIds |-> <<>>]
    IN  IF ~SplitterValid(chunk_size, ChunkOverlap)
        THEN same @@ [outcome |-> "split_error"]
        ELSE IF chunks = <<>>
        THEN same @@ [outcome |-> "embed_error"]
        ELSE IF FromDocumentsRaises(chunks, embedOk)
        THEN [vectorstore |-> IF vs.exists THEN merge_from(vs, first) ELSE first,
              faiss |-> faiss, pkl |-> pkl, newIds |-> <<ids0>>,
              outcome |-> "embed_error"]
        ELSE IF vs.exists /\ MergeRaises(vs, new)
        THEN [same EXCEPT !.vectorstore = merge_from(vs, new)] @@ [outcome |-> "merge_error"]
        ELSE LET vs2 == IF ~vs.exists THEN new ELSE merge_from(vs, new)
                 sv == SaveVectorstore(vs2, faiss, pkl, fault)
             IN  [vectorstore |-> vs2, faiss |-> sv.faiss, pkl |-> sv.pkl, newIds |-> ids,
                  outcome |-> IF sv.ok THEN "ok" ELSE "save_error"]

\* _add_documents_to_vectorstore(documents, chunk_size): the new
\* vectorstore and files, what happened, and the ids of the added records
AddDocumentsToVectorstore(vs, faiss, pkl, documents, chunk_size, ids0, embedOk, fault) ==
    LET chunks == SplitDocuments(documents, chunk_size, ChunkOverlap)
        ids == [i \in 1..Len(chunks) |-> ids0 + i - 1]
        new == from_documents(chunks, ids, EmbedDim)
        same == [vectorstore |-> vs, faiss |-> faiss, pkl |-> pkl, newIds |-> <<>>]
    IN  IF ~SplitterValid(chunk_size, ChunkOverlap)
        THEN same @@ [outcome |-> "split_error"]
        ELSE IF FromDocumentsRaises(chunks, embedOk)
        THEN same @@ [outcome |-> "embed_error"]
        ELSE IF vs.exists /\ MergeRaises(vs, new)
        THEN [same EXCEPT !.vectorstore = merge_from(vs, new)] @@ [outcome |-> "merge_error"]
        ELSE LET vs2 == IF ~vs.exists THEN new ELSE merge_from(vs, new)
                 sv == SaveVectorstore(vs2, faiss, pkl, fault)
             IN  [vectorstore |-> vs2, faiss |-> sv.faiss, pkl |-> sv.pkl, newIds |-> ids,
                  outcome |-> IF sv.ok THEN "ok" ELSE "save_error"]

\* str.strip() leaves nothing
IsBlank(query) == Strip(query) = <<>>

\* metadata.setdefault of 'title', 'source' and 'file_name'
WithDefaults(metadata) ==
    metadata @@ [title |-> "Unknown Document", source |-> "unknown",
                 file_name |-> "Unknown File"]

\* formatted_results whose documents carry the defaulted metadata
FormattedResultsDefaulted(results) ==
    [r \in 1..Len(results) |->
        [doc |-> [results[r].doc EXCEPT !.metadata = WithDefaults(@)],
         score |-> results[r].score]]

\* formatted_results: the defaults go to a copy of the metadata that is
\* dropped, the pair appended is (doc, score) as the index gave it
FormattedResults(results) ==
    [r \in 1..Len(results) |->
        LET metadata == WithDefaults(results[r].doc.metadata)
        IN  [doc |-> results[r].doc, score |-> results[r].score]]

\* search_documents(query, k): what happened and the list returned; every
\* exception is caught and an empty list returned
SearchDocuments(vs, query, k, embedOk) ==
    IF ~vs.exists THEN [outcome |-> "no_index", ret |-> <<>>]
    ELSE IF query = <<>> \/ IsBlank(query) THEN [outcome |-> "empty_query", ret |-> <<>>]
    ELSE IF ~embedOk THEN [outcome |-> "embed_error", ret |-> <<>>]
    ELSE LET qv == Embed(query, EmbedDim)
         IN  IF SearchRaises(vs, qv, k) THEN [outcome |-> "search_error", ret |-> <<>>]
             ELSE [outcome |-> "ok",
                   ret |-> FormattedResults(similarity_search_with_score(vs, qv, k))]

(***************************************************************************)
(* Inputs.                                                                 *)
(***************************************************************************)
ChunkSizes == {TinyChunkSize, DefaultChunkSize}

\* what may go wrong in the environment during one call: nothing, the
\* embedding model raising, or index.faiss not writable
Faults == {"none", "embed", "index"}

PdfRequests == {<<PathA>>, <<PathX>>, <<PathX, PathC>>}

WikiRequests == {<<>>, <<"p1">>, <<"gone", "p2">>}

QueryAB == <<"a", "b">>

Ks == {0 - 1, 0, 1, 2, DefaultK}

\* the calls of search_documents: every k with a query of text, and the
\* queries without text
SearchRequests ==
    {[query |-> QueryAB, k |-> k] : k \in Ks}
        \cup {[query |-> <<>>, k |-> 1], [query |-> <<" ", " ">>, k |-> DefaultK],
              [query |-> <<" ", " ">>, k |-> 0]}

\* dict.get(key, default) on a metadata record
Get(m, key, default) == IF key \in DOMAIN m THEN m[key] ELSE default

\* the keys of content_by_type: the 'source' of every hit
ContentTypes(results) ==
    {Get(results[i].doc.metadata, "source", "unknown") : i \in 1..Len(results)}

\* content_by_type[content_type]: title, content and score of the hits of
\* that type, in the order of the results
ContentByType(results, content_type) ==
    LET of == SelectSeq([i \in 1..Len(results) |-> i],
                  LAMBDA i : Get(results[i].doc.metadata, "source", "unknown") = content_type)
    IN  [j \in 1..Len(of) |->
            [title |-> Get(results[of[j]].doc.metadata, "title",
                           Get(results[of[j]].doc.metadata, "file_name", "Unknown")),
             content |-> results[of[j]].doc.page_content,
             score |-> results[of[j]].score]]

\* top_doc = max(docs, key=lambda x: x['score']): the first of the greatest
TopDoc(docs) ==
    docs[CHOOSE i \in 1..Len(docs) :
            \A j \in 1..Len(docs) :
                docs[i].score > docs[j].score \/ (docs[i].score = docs[j].score /\ i <= j)]

\* section_types of generate_design_document
SectionTypes ==
    {"overview", "background", "requirements", "architecture", "implementation",
     "data_flow", "security", "performance", "testing", "deployment", "timeline",
     "risks"}

\* the sections without the try around each: a section whose generation
\* fails is left out
SectionsUnguarded(failing) ==
    [section_type \in SectionTypes \ failing |-> "generated"]

\* sections: the text generated for each section type, or the fallback text
\* when _analyze_content_for_section raised
Sections(failing) ==
    [section_type \in SectionTypes |->
        IF section_type \in failing THEN "fallback" ELSE "generated"]

\* sources: one source_info per hit, in the order of the results
Sources(results) ==
    [r \in 1..Len(results) |->
        [title |-> Get(results[r].doc.metadata, "title",
                       Get(results[r].doc.metadata, "file_name", "Unknown")),
         type |-> Get(results[r].doc.metadata, "source", "unknown"),
         score |-> results[r].score,
         content_preview |-> results[r].doc.page_content]]

\* what generate_design_document returns: the sections rendered into the
\* document, the sources, and the metadata
DesignDocument(user_request, results, failing) ==
    [returned |-> TRUE,
     sections |-> Sections(failing),
     sources |-> Sources(results),
     metadata |-> [title |-> "Technical Design Document", user_request |-> user_request,
                   timestamp |-> "now", generation_time |-> "s",
                   source_count |-> Len(Sources(results)),
                   content_types |-> ContentTypes(results), rag_enhanced |-> TRUE]]

\* the metadata keys the 'Generate Design Document' handler reads before it
\* displays the document
HandlerReads == {"source_count", "llm_used", "timestamp"}

\* the handler after the generator returned: a key that is missing raises
\* KeyError into the handler's except branch, before the document is shown
Displayed(result) == HandlerReads \subseteq DOMAIN result.metadata

\* no design document asked for
NoResult ==
    [returned |-> FALSE, sections |-> [section_type \in SectionTypes |-> "none"],
     sources |-> <<>>, metadata |-> [none |-> TRUE]]

\* lastOp: op and its arguments (query, k), outcome (what happened inside
\* the call), and what the caller has of it: ret, the value returned (the
\* hit list of search_documents; the other calls return None), and
\* signalled, whether an exception left the call.  Every body above runs
\* under try / except Exception, so none does.  newIds are the ids of the
\* records the call added.  An ingest has its arguments in request (the
\* pdf_paths or page_ids) and chunk_size.
Op(op, outcome, ret, newIds, query, k) ==
    [op |-> op, outcome |-> outcome, signalled |-> FALSE, ret |-> ret,
     newIds |-> newIds, query |-> query, k |-> k, request |-> <<>>,
     chunk_size |-> 0, result |-> NoResult]

\* the record of an ingest call
IngestOp(op, outcome, newIds, request, chunk_size) ==
    [Op(op, outcome, <<>>, newIds, <<>>, 0) EXCEPT !.request = request,
                                                   !.chunk_size = chunk_size]

(***************************************************************************)
(* The state after UnifiedDataProcessor() has been constructed, over each  *)
(* content vector_store/ may have when the process starts.                 *)
(***************************************************************************)
PriorChunk == PdfDocuments(PathP, PdfPages[PathP])[1]

\* a store saved by an earlier run, and one saved with another embedding model
PriorStore == from_documents(<<PriorChunk>>, <<0>>, EmbedDim)
ForeignStore == from_documents(<<PriorChunk>>, <<0>>, EmbedDim + 1)

InitDisks ==
    {[faiss |-> NoFile, pkl |-> NoFile],
     [faiss |-> IndexFile(PriorStore), pkl |-> PklFile(PriorStore)],
     [faiss |-> IndexFile(PriorStore), pkl |-> NoFile],
     [faiss |-> IndexFile(ForeignStore), pkl |-> PklFile(ForeignStore)]}

\* the Streamlit sessions, each run by a thread of its own
Sessions == {"s1", "s2"}

\* a thread: where its call stands (pc), the call's locals (the new store,
\* the query and k, the positions found, the list returned) and obj, the
\* store object a library call in progress is bound to once
\* self.vectorstore has been assigned another one (NoneStore: the current)
Idle == [pc |-> "idle", new |-> NoneStore, query |-> <<>>, k |-> 0, ps |-> <<>>,
         ret |-> <<>>, obj |-> NoneStore]

ThreadsIdle == thread = [s \in Sessions |-> Idle]

ChunkIdle ==
    /\ cText = <<>>
    /\ cSize = 1
    /\ cOverlap = 0
    /\ cChunks = <<>>
    /\ cDone = TRUE

Init ==
    /\ \E disk \in InitDisks :
        /\ diskFaiss = disk.faiss
        /\ diskPkl = disk.pkl
        /\ vectorstore = LoadExistingVectorstore(disk.faiss, disk.pkl)
        /\ lastOp = Op("init", LoadOutcome(disk.faiss, disk.pkl), <<>>, <<>>, <<>>, 0)
    /\ diskDir = TRUE
    /\ confEnv = "ok"
    /\ confluence_processor = ConfluenceInit(confEnv)
    /\ nextId = 1
    /\ ChunkIdle
    /\ ThreadsIdle

(***************************************************************************)
(* The operations.                                                         *)
(***************************************************************************)
\* add_pdf_documents(pdf_paths, chunk_size)
AddPdfDocuments ==
    /\ \E pdf_paths \in PdfRequests, chunk_size \in ChunkSizes, fault \in Faults :
        \E all_documents \in {AllDocuments(pdf_paths)} :
        \E r \in {AddDocumentsToVectorstore(vectorstore, diskFaiss, diskPkl,
                                           all_documents, chunk_size, nextId,
                                           fault # "embed", fault)} :
            IF all_documents = <<>>
            THEN /\ lastOp' = IngestOp("pdf", "no_documents", <<>>, pdf_paths, chunk_size)
                 /\ UNCHANGED <<vectorstore, diskDir, diskFaiss, diskPkl, nextId>>
            ELSE /\ nextId + Len(r.newIds) - 1 <= MaxIds
                 /\ vectorstore' = r.vectorstore
                 /\ diskFaiss' = r.faiss
                 /\ diskPkl' = r.pkl
                 /\ diskDir' = (diskDir \/ r.outcome \in {"ok", "save_error"})
                 /\ nextId' = nextId + Len(r.newIds)
                 /\ lastOp' = IngestOp("pdf", r.outcome, r.newIds, pdf_paths, chunk_size)
    /\ UNCHANGED <<confluence_processor, confEnv, cvars, thread>>

\* add_confluence_documents(page_ids, chunk_size)
AddConfluenceDocuments ==
    /\ \E page_ids \in WikiRequests, chunk_size \in ChunkSizes, fault \in Faults :
        \E r \in {ProcessConfluenceToVectorstore(confluence_processor, page_ids,
                                                chunk_size, nextId, fault # "embed")} :
            IF r.raised \/ ~r.vs.exists
            THEN /\ lastOp' = IngestOp("wiki", r.why, <<>>, page_ids, chunk_size)
                 /\ UNCHANGED <<vectorstore, diskDir, diskFaiss, diskPkl, nextId>>
            ELSE IF vectorstore.exists /\ MergeRaises(vectorstore, r.vs)
            THEN /\ vectorstore' = merge_from(vectorstore, r.vs)
                 /\ lastOp' = IngestOp("wiki", "merge_error", <<>>, page_ids, chunk_size)
                 /\ UNCHANGED <<diskDir, diskFaiss, diskPkl, nextId>>
            ELSE \E vs2 \in {IF ~vectorstore.exists THEN r.vs
                              ELSE merge_from(vectorstore, r.vs)} :
                 \E sv \in {SaveVectorstore(vs2, diskFaiss, diskPkl, fault)} :
                     /\ nextId + Len(r.vs.i2d) - 1 <= MaxIds
                     /\ vectorstore' = vs2
                     /\ diskFaiss' = sv.faiss
                     /\ diskPkl' = sv.pkl
                     /\ diskDir' = TRUE
                     /\ nextId' = nextId + Len(r.vs.i2d)
                     /\ lastOp' = IngestOp("wiki", IF sv.ok THEN "ok" ELSE "save_error",
                                           r.vs.i2d, page_ids, chunk_size)
    /\ UNCHANGED <<confluence_processor, confEnv, cvars, thread>>

\* save_vectorstore()
Save ==
    /\ \E fault \in {"none", "index"} :
        \E sv \in {SaveVectorstore(vectorstore, diskFaiss, diskPkl, fault)} :
            /\ diskFaiss' = sv.faiss
            /\ diskPkl' = sv.pkl
            /\ diskDir' = (diskDir \/ vectorstore.exists)
            /\ lastOp' = Op("save", IF sv.ok THEN "ok" ELSE "save_error",
                            <<>>, <<>>, <<>>, 0)
    /\ UNCHANGED <<vectorstore, confluence_processor, confEnv, nextId, cvars, thread>>

\* search_documents(query, k)
Search ==
    /\ \E rq \in SearchRequests, fault \in {"none", "embed"} :
        /\ fault = "embed" => rq.k = 1
        /\ \E r \in {SearchDocuments(vectorstore, rq.query, rq.k, fault # "embed")} :
               lastOp' = Op("search", r.outcome, r.ret, <<>>, rq.query, rq.k)
    /\ UNCHANGED <<vectorstore, diskDir, diskFaiss, diskPkl, confluence_processor,
                   confEnv, nextId, cvars, thread>>

\* 'Restart Components': the cached processor is dropped and
\* UnifiedDataProcessor() constructed again
Restart ==
    /\ vectorstore' = LoadExistingVectorstore(diskFaiss, diskPkl)
    /\ confluence_processor' = ConfluenceInit(confEnv)
    /\ diskDir' = TRUE
    /\ lastOp' = Op("restart", LoadOutcome(diskFaiss, diskPkl), <<>>, <<>>, <<>>, 0)
    /\ UNCHANGED <<diskFaiss, diskPkl, confEnv, nextId, cvars, thread>>

\* 'Clear Vector Store': shutil.rmtree of the directory, when it exists
ClearVectorStore ==
    /\ IF diskDir
       THEN /\ diskDir' = FALSE
            /\ diskFaiss' = NoFile
            /\ diskPkl' = NoFile
            /\ lastOp' = Op("clear", "ok", <<>>, <<>>, <<>>, 0)
       ELSE /\ lastOp' = Op("clear", "nothing_to_clear", <<>>, <<>>, <<>>, 0)
            /\ UNCHANGED <<diskDir, diskFaiss, diskPkl>>
    /\ UNCHANGED <<vectorstore, confluence_processor, confEnv, nextId, cvars, thread>>

\* the sections whose generation raises in one call: none, one, all
SectionFailures == {{}, {"background"}, SectionTypes}

\* the k of generate_design_document's search
GenerateK == 12

\* DesignDocumentGenerator._extract_relevant_content(user_request, k) over
\* the generator's own processor
ExtractRelevantContent(vs, user_request, k) ==
    IF ~vs.exists THEN [outcome |-> "no_index", ret |-> <<>>]
    ELSE SearchDocuments(vs, user_request, k, TRUE)

\* 'Generate Design Document': a new DesignDocumentGenerator, whose
\* processor property constructs UnifiedDataProcessor(vector_store_path) on
\* first use, and the search of generate_design_document in it
GenerateDesignDocument ==
    /\ \E processor \in {LoadExistingVectorstore(diskFaiss, diskPkl)} :
           \E r \in {ExtractRelevantContent(processor, QueryAB, GenerateK)},
              failing \in SectionFailures :
               lastOp' = [Op("generate", r.outcome, r.ret, <<>>, QueryAB, GenerateK)
                             EXCEPT !.result = DesignDocument(QueryAB, r.ret, failing)]
    /\ diskDir' = TRUE
    /\ UNCHANGED <<vectorstore, diskFaiss, diskPkl, confluence_processor, confEnv,
                   nextId, cvars, thread>>

Next ==
    \/ AddPdfDocuments
    \/ AddConfluenceDocuments
    \/ Save
    \/ Search
    \/ Restart
    \/ ClearVectorStore
    \/ GenerateDesignDocument

Spec == Init /\ [][Next]_vars

(***************************************************************************)
(* The chunker on its own: any text over a small alphabet, any chunk size  *)
(* and overlap with chunkSize > 0 and 0 <= overlap < chunkSize.            *)
(***************************************************************************)
Alphabet == {"a", "b", " ", NL}

TextsUpTo(n) == UNION {[1..m -> Alphabet] : m \in 0..n}

ProcessorIdle ==
    /\ vectorstore = NoneStore
    /\ diskDir = TRUE
    /\ diskFaiss = NoFile
    /\ diskPkl = NoFile
    /\ confEnv = "no_credentials"
    /\ confluence_processor = ConfluenceInit(confEnv)
    /\ nextId = 1
    /\ lastOp = Op("init", "ok", <<>>, <<>>, <<>>, 0)

InitChunk ==
    /\ ProcessorIdle
    /\ cText \in TextsUpTo(MaxTextLen)
    /\ cSize \in 1..MaxChunkSize
    /\ cOverlap \in 0..(cSize - 1)
    /\ cChunks = <<>>
    /\ cDone = FALSE
    /\ ThreadsIdle

Split ==
    /\ ~cDone
    /\ SplitterValid(cSize, cOverlap)
    /\ cChunks' = SplitText(cText, cSize, cOverlap)
    /\ cDone' = TRUE
    /\ UNCHANGED <<cText, cSize, cOverlap, pvars, thread>>

NextChunk == Split

SpecChunk == InitChunk /\ [][NextChunk]_vars

(***************************************************************************)
(* Concurrent sessions (SpecConc).  initialize_processor is cached with    *)
(* st.cache_resource, so every session's thread calls the one              *)
(* UnifiedDataProcessor; no method of it takes a lock.  A call is taken    *)
(* apart at its accesses to the shared vectorstore and files:              *)
(*   _add_documents_to_vectorstore  the test for None with the building    *)
(*       of the new store; the assignment, or merge_from's index merge and *)
(*       then its docstore update; save_local's index.faiss and then its   *)
(*       index.pkl                                                         *)
(*   search_documents  the test for None; the index search; the docstore   *)
(*       lookups                                                           *)
(***************************************************************************)
ConcRequests == {<<PathC>>, <<PathA>>}

ConcSearches == {[query |-> QueryAB, k |-> 1], [query |-> QueryAB, k |-> DefaultK]}

\* _add_documents_to_vectorstore up to the new store: split, the test
\* 'self.vectorstore is None', from_documents
TIngestBegin(s) ==
    /\ thread[s].pc = "idle"
    /\ \E pdf_paths \in ConcRequests :
        \E chunks \in {SplitDocuments(AllDocuments(pdf_paths), DefaultChunkSize,
                                      ChunkOverlap)} :
            /\ nextId + Len(chunks) - 1 <= MaxIds
            /\ thread' = [thread EXCEPT ![s] =
                   [Idle EXCEPT !.pc = IF vectorstore.exists THEN "merge_index"
                                       ELSE "assign",
                                !.new = from_documents(chunks,
                                            [i \in 1..Len(chunks) |-> nextId + i - 1],
                                            EmbedDim)]]
            /\ nextId' = nextId + Len(chunks)
    /\ UNCHANGED <<vectorstore, diskDir, diskFaiss, diskPkl, confluence_processor,
                   confEnv, lastOp, cvars>>

\* the store a library call of s works on
Bound(s) == IF thread[s].obj.exists THEN thread[s].obj ELSE vectorstore

\* inside merge_from, save_local or similarity_search_with_score
InLibraryCall(s) ==
    thread[s].pc \in {"merge_docstore", "save_pkl", "search_index", "search_docs"}

\* self.vectorstore = FAISS.from_documents(...): a library call in progress
\* in another thread stays with the object it was called on
TAssign(s) ==
    /\ thread[s].pc = "assign"
    /\ vectorstore' = thread[s].new
    /\ thread' = [t \in Sessions |->
           IF t = s THEN [thread[s] EXCEPT !.pc = "save_index"]
           ELSE IF InLibraryCall(t) /\ ~thread[t].obj.exists /\ vectorstore.exists
           THEN [thread[t] EXCEPT !.obj = vectorstore]
           ELSE thread[t]]
    /\ UNCHANGED <<diskDir, diskFaiss, diskPkl, confluence_processor, confEnv,
                   nextId, lastOp, cvars>>

\* merge_from, first half: self.index.merge_from(target.index); another
\* dimension raises, which ends the call
TMergeIndex(s) ==
    /\ thread[s].pc = "merge_index"
    /\ IF vectorstore.d # thread[s].new.d
       THEN /\ thread' = [thread EXCEPT ![s] = Idle]
            /\ UNCHANGED vectorstore
       ELSE /\ vectorstore' = [vectorstore EXCEPT !.vecs = @ \o thread[s].new.vecs]
            /\ thread' = [thread EXCEPT ![s].pc = "merge_docstore"]
    /\ UNCHANGED <<diskDir, diskFaiss, diskPkl, confluence_processor, confEnv,
                   nextId, lastOp, cvars>>

\* merge_from, second half: docstore.add and index_to_docstore_id.update
TMergeDocstore(s) ==
    /\ thread[s].pc = "merge_docstore"
    /\ IF thread[s].obj.exists
       THEN UNCHANGED vectorstore
       ELSE vectorstore' = [vectorstore EXCEPT !.i2d = @ \o thread[s].new.i2d,
                                               !.docs = @ @@ thread[s].new.docs]
    /\ thread' = [thread EXCEPT ![s].pc = "save_index", ![s].obj = NoneStore]
    /\ UNCHANGED <<diskDir, diskFaiss, diskPkl, confluence_processor, confEnv,
                   nextId, lastOp, cvars>>

\* save_local, first half: faiss.write_index
TSaveIndex(s) ==
    /\ thread[s].pc = "save_index"
    /\ diskFaiss' = IndexFile(vectorstore)
    /\ diskDir' = TRUE
    /\ thread' = [thread EXCEPT ![s].pc = "save_pkl"]
    /\ UNCHANGED <<vectorstore, diskPkl, confluence_processor, confEnv, nextId,
                   lastOp, cvars>>

\* save_local, second half: pickle.dump of docstore and index_to_docstore_id
TSavePkl(s) ==
    /\ thread[s].pc = "save_pkl"
    /\ diskPkl' = PklFile(Bound(s))
    /\ thread' = [thread EXCEPT ![s] = Idle]
    /\ UNCHANGED <<vectorstore, diskDir, diskFaiss, confluence_processor, confEnv,
                   nextId, lastOp, cvars>>

\* search_documents up to the call of similarity_search_with_score
TSearchBegin(s) ==
    /\ thread[s].pc = "idle"
    /\ \E rq \in ConcSearches :
        thread' = [thread EXCEPT ![s] =
            IF ~vectorstore.exists THEN Idle
            ELSE [Idle EXCEPT !.pc = "search_index", !.query = rq.query, !.k = rq.k]]
    /\ UNCHANGED <<pvars, cvars>>

\* index.search(vector, k); a query of another dimension raises
TSearchIndex(s) ==
    /\ thread[s].pc = "search_index"
    /\ thread' = [thread EXCEPT ![s] =
           IF Bound(s).d # EmbedDim THEN Idle
           ELSE [@ EXCEPT !.pc = "search_docs",
                          !.ps = IndexSearch(Bound(s).vecs,
                                             Embed(thread[s].query, EmbedDim),
                                             thread[s].k)]]
    /\ UNCHANGED <<pvars, cvars>>

\* the docstore lookups of the positions found; a position without id
\* raises, and search_documents returns []
TSearchDocs(s) ==
    /\ thread[s].pc = "search_docs"
    /\ \E ps \in {thread[s].ps}, vs \in {Bound(s)} :
        thread' = [thread EXCEPT ![s] =
            [Idle EXCEPT !.ret =
                IF \E r \in 1..Len(ps) : ps[r] > Len(vs.i2d)
                THEN <<>>
                ELSE [r \in 1..Len(ps) |->
                         [doc |-> vs.docs[vs.i2d[ps[r]]],
                          score |-> L2(vs.vecs[ps[r]],
                                       Embed(thread[s].query, EmbedDim))]]]]
    /\ UNCHANGED <<pvars, cvars>>

NextConc ==
    \E s \in Sessions :
        \/ TIngestBegin(s)
        \/ TAssign(s)
        \/ TMergeIndex(s)
        \/ TMergeDocstore(s)
        \/ TSaveIndex(s)
        \/ TSavePkl(s)
        \/ TSearchBegin(s)
        \/ TSearchIndex(s)
        \/ TSearchDocs(s)

SpecConc == Init /\ [][NextConc]_vars

(***************************************************************************)
(* Chunking (SpecChunk).                                                   *)
(***************************************************************************)
\* the window's advances plus the last chunk: every chunk but the last
\* advances by chunkSize - overlap, the last one counts in full
AdvanceSum(chunks, cs, ov) ==
    IF chunks = <<>> THEN 0
    ELSE (Len(chunks) - 1) * (cs - ov) + Len(chunks[Len(chunks)])

NoWhitespace(t) == \A i \in 1..Len(t) : ~IsSpace(t[i])

ChunksWithin(chunks, cs) == \A i \in 1..Len(chunks) : Len(chunks[i]) <= cs

RecordCount(vs) == IF vs.exists THEN Len(vs.vecs) ELSE 0

StoredIds(vs) == DOMAIN vs.docs

HitIds(ret) == {ret[i].doc.id : i \in 1..Len(ret)}

Min(a, b) == IF a < b THEN a ELSE b

Ingests == {"pdf", "wiki"}

\* the ids a search for every record of vs brings back
Retrievable(vs) ==
    HitIds(SearchDocuments(vs, QueryAB, RecordCount(vs), TRUE).ret)

\* C1: an ingest that merges the new records B into the index A leaves
\* recordCount(A) + recordCount(B) records, none merged away even when its
\* text and metadata equal a record's of A; the records of A are kept as they
\* were and a search brings back those of A and those of B; with no index
\* before, the result holds exactly the records of B.  Both ingest paths.
C1_MergeAdditive ==
    [][(lastOp'.op \in Ingests /\ lastOp'.outcome \in {"ok", "save_error"}) =>
          /\ lastOp'.newIds # <<>>
          /\ RecordCount(vectorstore') = RecordCount(vectorstore) + Len(lastOp'.newIds)
          /\ Cardinality(StoredIds(vectorstore')) = RecordCount(vectorstore')
          /\ StoredIds(vectorstore') = StoredIds(vectorstore) \cup Range(lastOp'.newIds)
          /\ \A x \in StoredIds(vectorstore) : vectorstore'.docs[x] = vectorstore.docs[x]
          /\ Retrievable(vectorstore') = StoredIds(vectorstore) \cup Range(lastOp'.newIds)
          /\ ~vectorstore.exists => StoredIds(vectorstore') = Range(lastOp'.newIds)]_vars

\* two records with the same text and the same metadata
HasDuplicate(vs) ==
    \E x, y \in StoredIds(vs) :
        /\ x # y
        /\ vs.docs[x].page_content = vs.docs[y].page_content
        /\ vs.docs[x].metadata = vs.docs[y].metadata

\* the same file ingested twice over an index that held a record already
C1_Witness ==
    /\ lastOp.op = "pdf"
    /\ lastOp.outcome = "ok"
    /\ RecordCount(vectorstore) = 3
    /\ HasDuplicate(vectorstore)

HasText(query) == query # <<>> /\ ~IsBlank(query)

C3_EmbedFailureAtomic ==
    [][(lastOp'.op \in Ingests /\ lastOp'.outcome = "embed_error") =>
          vectorstore' = vectorstore]_vars

\* a failed embedding over an index that holds records
C3_Witness ==
    /\ lastOp.op \in Ingests
    /\ lastOp.outcome = "embed_error"
    /\ RecordCount(vectorstore) >= 2

\* C4, as the claim states it: an add of records of another dimensionality
\* than the index's fails with an error the caller gets
C4_WrongDimensionSignalled ==
    (lastOp.op \in Ingests /\ lastOp.outcome = "merge_error") => lastOp.signalled

\* C4, the part the code keeps: the rejected add leaves the index as it was
C4_RejectedAddUnchanged ==
    [][(lastOp'.op \in Ingests /\ lastOp'.outcome = "merge_error") =>
          vectorstore' = vectorstore]_vars

\* an ingest rejected by an index of another dimensionality
C4_Witness ==
    /\ lastOp.op = "pdf"
    /\ lastOp.outcome = "merge_error"
    /\ vectorstore.d # EmbedDim

NoResults == [signalled |-> FALSE, ret |-> <<>>]

CallerSees(op) == [signalled |-> op.signalled, ret |-> op.ret]

\* C7, as the claim states it: a search with an empty or whitespace-only
\* query fails with an error, which the caller tells from 'no results'
C7_BlankQuerySignalled ==
    (lastOp.op = "search" /\ ~HasText(lastOp.query)) =>
        lastOp.signalled /\ CallerSees(lastOp) # NoResults

\* C8, as the claim states it: a search with k <= 0 fails with an error and
\* returns no list
C8_NonPositiveKSignalled ==
    (lastOp.op = "search" /\ lastOp.k <= 0) => lastOp.signalled

(***************************************************************************)
(* Concurrent access (SpecConc).                                           *)
(***************************************************************************)
\* between the two halves of a merge or of a save
Writing(s) == thread[s].pc \in {"merge_docstore", "save_pkl"}

\* between the index search and the docstore lookups of a search
Reading(s) == thread[s].pc = "search_docs"

\* C9, as the claim states it: no search reads the index while a merge or a
\* save is in progress, and no two of them are in progress at once
C9_ReadersWriter ==
    \A s, t \in Sessions :
        (s # t /\ Writing(s)) => ~Reading(t) /\ ~Writing(t)

\* what the missing discipline costs: two ingests have both returned and the
\* index holds fewer records than were added to it
C9_LostUpdate ==
    /\ \A s \in Sessions : thread[s].pc = "idle"
    /\ vectorstore.exists
    /\ vectorstore.d = EmbedDim
    /\ RecordCount(vectorstore) < nextId - 1

(***************************************************************************)
(* Chunking parameters (Spec).                                             *)
(***************************************************************************)
\* the request reached the splitter: some file loaded, some page was found
ReachedSplitter(op) == op.outcome \notin {"no_documents", "unavailable"}

\* C11, as the claim states it: an ingest with chunk_size <= 100 (the
\* overlap is fixed at 100, so 0 <= overlap < chunkSize fails) fails with an
\* error signalled to the caller
C11_InvalidChunkingSignalled ==
    (lastOp.op \in Ingests /\ lastOp.chunk_size <= ChunkOverlap
        /\ ReachedSplitter(lastOp)) => lastOp.signalled

\* an ingest with chunk_size below the overlap, which the splitter refused
C11_Witness ==
    /\ lastOp.op \in Ingests
    /\ lastOp.chunk_size < ChunkOverlap
    /\ lastOp.outcome = "split_error"

(***************************************************************************)
(* Chunk boundaries (SpecChunk).                                           *)
(***************************************************************************)
\* the fixed sliding window: chunks of length cs starting every cs - ov
\* characters, the last one ending with the text
RECURSIVE WindowFrom(_, _, _, _)
WindowFrom(t, start, cs, ov) ==
    IF start + cs - 1 >= Len(t) THEN <<SubSeq(t, start, Len(t))>>
    ELSE <<SubSeq(t, start, start + cs - 1)>> \o WindowFrom(t, start + cs - ov, cs, ov)

SlidingWindow(t, cs, ov) == IF t = <<>> THEN <<>> ELSE WindowFrom(t, 1, cs, ov)

ExampleText == <<"A", "B", "C", "D", "E", "F", "G", "H", "I", "J">>

ExampleChunks == << <<"A", "B", "C", "D">>, <<"D", "E", "F", "G">>, <<"G", "H", "I", "J">> >>

PdfRawBlank(pdf_paths) ==
    \A i \in 1..Len(pdf_paths) :
        pdf_paths[i] \in DOMAIN PdfPages =>
            \A j \in 1..Len(PdfPages[pdf_paths[i]]) : IsBlank(PdfPages[pdf_paths[i]][j])

\* every page the request finds has an empty body
WikiRawBlank(page_ids) ==
    \A i \in 1..Len(page_ids) :
        page_ids[i] \in DOMAIN WikiPages => IsBlank(WikiPages[page_ids[i]].content)

BlankIngest(op) ==
    \/ op.op = "pdf" /\ PdfRawBlank(op.request)
    \/ op.op = "wiki" /\ WikiRawBlank(op.request)

\* C13, as the claim states it: an ingest whose raw text is empty or
\* whitespace-only adds no chunk, reports no error and leaves the in-memory
\* index and the persisted files as they were
C13_BlankIngestNoEffect ==
    [][BlankIngest(lastOp') =>
          /\ lastOp'.newIds = <<>>
          /\ ~lastOp'.signalled
          /\ vectorstore' = vectorstore
          /\ diskFaiss' = diskFaiss
          /\ diskPkl' = diskPkl]_vars

\* a PDF whose only page is whitespace, ingested: the index holds the
\* placeholder text for it
C13_Witness ==
    /\ lastOp.op = "pdf"
    /\ lastOp.request = <<PathX, PathC>>
    /\ lastOp.outcome = "ok"
    /\ Len(lastOp.newIds) = 1
    /\ vectorstore.docs[lastOp.newIds[1]].page_content
           = ContentFrom \o <<"c">> \o DashPage \o <<"1">>

(***************************************************************************)
(* Loading (Spec).                                                         *)
(***************************************************************************)
\* the calls that load: UnifiedDataProcessor() at start and after 'Restart
\* Components'
Loads == {"init", "restart"}

\* the two files hold the same number of records
FilesConsistent(faiss, pkl) ==
    /\ Len(faiss.vecs) = Len(pkl.i2d)
    /\ Range(pkl.i2d) = DOMAIN pkl.docs

\* C14, as the claim states it: with one of the two files missing the load
\* fails with an error the caller gets, and the load succeeds only with both
\* files present and consistent
C14_LoadRequiresBoth ==
    lastOp.op \in Loads =>
        /\ ((diskFaiss.state = "ok") # (diskPkl.state = "ok")) => lastOp.signalled
        /\ vectorstore.exists =>
               /\ diskFaiss.state = "ok"
               /\ diskPkl.state = "ok"
               /\ FilesConsistent(diskFaiss, diskPkl)

\* a processor constructed over index.faiss without index.pkl
C14_Witness ==
    /\ lastOp.op = "restart"
    /\ diskFaiss.state = "ok"
    /\ diskPkl.state = "absent"
    /\ ~vectorstore.exists

(***************************************************************************)
(* Errors (Spec).                                                          *)
(***************************************************************************)
\* an exception was raised inside the call
Errors == {"split_error", "embed_error", "merge_error", "save_error",
           "search_error", "load_error"}

\* C15, as the claim states it: every error arising in an ingest, a save, a
\* load or a search is signalled to the caller of that operation
C15_ErrorsSignalled ==
    lastOp.outcome \in Errors => lastOp.signalled

\* a save that failed inside and returned like one that wrote the files
C15_Witness ==
    /\ lastOp.op = "save"
    /\ lastOp.outcome = "save_error"
    /\ ~lastOp.signalled
    /\ vectorstore.exists
    /\ LoadExistingVectorstore(diskFaiss, diskPkl) # vectorstore

(***************************************************************************)
(* One dimensionality per index (Spec).                                    *)
(***************************************************************************)
\* the merge was carried out
Merged(op) == op.op \in Ingests /\ op.outcome \in {"ok", "save_error"}

InsertedAt(vs, hit) == CHOOSE p \in 1..Len(vs.i2d) : vs.i2d[p] = hit.doc.id

\* hits in non-decreasing distance, the earlier inserted first of equals
Ranked(vs, ret) ==
    \A r \in 1..Len(ret) : \A t \in 1..Len(ret) :
        r < t =>
            \/ ret[r].score < ret[t].score
            \/ /\ ret[r].score = ret[t].score
               /\ InsertedAt(vs, ret[r]) < InsertedAt(vs, ret[t])

ExampleVectors == << <<1, 0>>, <<0, 1>> >>

\* C17: the hits of a search come in non-decreasing distance, on an equal
\* distance the record inserted earlier first, and search_documents returns
\* them in the order the index produced; of the vectors [1,0] and [0,1] the
\* query [1,0] with k = 1 finds the first, at distance 0
C17_RankOrder ==
    (lastOp.op = "search" /\ lastOp.outcome = "ok") =>
        /\ Ranked(vectorstore, lastOp.ret)
        /\ lastOp.ret = similarity_search_with_score(vectorstore,
                             Embed(lastOp.query, EmbedDim), lastOp.k)
        /\ \A r \in 1..Len(lastOp.ret) :
               lastOp.ret[r].score =
                   L2(vectorstore.vecs[InsertedAt(vectorstore, lastOp.ret[r])],
                      Embed(lastOp.query, EmbedDim))
        /\ IndexSearch(ExampleVectors, <<1, 0>>, 1) = <<1>>
        /\ L2(ExampleVectors[1], <<1, 0>>) = 0

\* a search whose first two hits are at the same distance and whose third is
\* farther
C17_Witness ==
    /\ lastOp.op = "search"
    /\ lastOp.outcome = "ok"
    /\ Len(lastOp.ret) = 3
    /\ lastOp.ret[1].score = lastOp.ret[2].score
    /\ lastOp.ret[2].score < lastOp.ret[3].score
    /\ InsertedAt(vectorstore, lastOp.ret[1]) < InsertedAt(vectorstore, lastOp.ret[2])
    /\ InsertedAt(vectorstore, lastOp.ret[3]) < InsertedAt(vectorstore, lastOp.ret[2])

(***************************************************************************)
(* Payload of every record (Spec).                                         *)
(***************************************************************************)
\* every position of the search structure has a docstore id, and every such
\* id a Document with text and metadata
NoDanglingIds(vs) ==
    vs.exists =>
        /\ Len(vs.i2d) = Len(vs.vecs)
        /\ \A p \in 1..Len(vs.vecs) :
               /\ vs.i2d[p] \in DOMAIN vs.docs
               /\ DOMAIN vs.docs[vs.i2d[p]] = {"id", "page_content", "metadata"}

UniqueIds(vs) ==
    vs.exists =>
        /\ \A p, q \in 1..Len(vs.i2d) : vs.i2d[p] = vs.i2d[q] => p = q
        /\ Cardinality(DOMAIN vs.docs) = Len(vs.i2d)
        /\ \A x \in DOMAIN vs.docs : vs.docs[x].id = x

\* C19: every index the processor holds has one id per record, and the
\* records an ingest adds get ids that differ from each other and from every
\* id the index held before
C19_UniqueIds ==
    [][/\ UniqueIds(vectorstore')
       /\ Merged(lastOp') =>
              /\ Range(lastOp'.newIds) \cap StoredIds(vectorstore) = {}
              /\ Cardinality(Range(lastOp'.newIds)) = Len(lastOp'.newIds)
              /\ Range(lastOp'.newIds) \subseteq Range(vectorstore'.i2d)]_vars

\* a wiki page merged in a second time: same text, another id
C19_Witness ==
    /\ lastOp.op = "wiki"
    /\ lastOp.outcome = "ok"
    /\ RecordCount(vectorstore) = 3
    /\ Cardinality(Range(vectorstore.i2d)) = 3
    /\ HasDuplicate(vectorstore)

(***************************************************************************)
(* One index for every consumer (Spec).                                    *)
(***************************************************************************)
\* what the UI search over the processor's index returns for the request
UiAnswer(query, k) == SearchDocuments(vectorstore, query, k, TRUE).ret

\* C20, as the claim states it: the design-document generator is answered
\* from the record set of the processor's index, the one the last completed
\* ingest produced, as the UI search is
C20_SingleActiveIndex ==
    lastOp.op = "generate" => lastOp.ret = UiAnswer(lastOp.query, lastOp.k)

\* the generator finds nothing while the processor's index holds two records
\* of the embedder's dimensionality
C20_Witness ==
    /\ lastOp.op = "generate"
    /\ lastOp.ret = <<>>
    /\ vectorstore.exists
    /\ vectorstore.d = EmbedDim
    /\ Len(UiAnswer(lastOp.query, lastOp.k)) = 2

(***************************************************************************)
(* Persisted files after a failed load (Spec).                             *)
(***************************************************************************)
\* index.faiss is there and the processor holds no index: the load of the
\* files failed
LoadFailed == ~vectorstore.exists /\ diskFaiss.state = "ok"

\* C21, as the claim states it: a failed load is signalled, and while the
\* processor holds no index because the load failed, no call of the processor
\* writes over the persisted files
C21_NoSilentOverwrite ==
    [][/\ (lastOp'.op \in Loads /\ lastOp'.outcome = "load_error") => lastOp'.signalled
       /\ (LoadFailed /\ lastOp'.op \in Ingests \cup {"save"}) =>
              (diskFaiss' = diskFaiss /\ diskPkl' = diskPkl)]_vars

\* a processor constructed over index.faiss without index.pkl
C21_Witness ==
    /\ lastOp.op = "init"
    /\ lastOp.outcome = "load_error"
    /\ LoadFailed
    /\ diskPkl.state = "absent"

(***************************************************************************)
(* The primary insight of the generator (Spec).                            *)
(***************************************************************************)
\* C22, as the claim states it: the hit the generator takes as the primary
\* insight of a content type is the one the search ranked most similar of
\* that type, i.e. the first of them in the results
C22_PrimaryIsMostSimilar ==
    lastOp.op = "generate" =>
        \A content_type \in ContentTypes(lastOp.ret) :
            TopDoc(ContentByType(lastOp.ret, content_type)) =
                ContentByType(lastOp.ret, content_type)[1]

\* two hits of one content type at different distances: the primary insight
\* is the farther one
C22_Witness ==
    /\ lastOp.op = "generate"
    /\ lastOp.outcome = "ok"
    /\ \E content_type \in ContentTypes(lastOp.ret) :
           LET docs == ContentByType(lastOp.ret, content_type)
           IN  /\ Len(docs) >= 2
               /\ docs[1].score < TopDoc(docs).score
               /\ \A j \in 1..Len(docs) : docs[j].score <= TopDoc(docs).score

(***************************************************************************)
(* Traceability metadata (Spec).                                           *)
(***************************************************************************)
RequiredKeys == {"source", "title"}

Traceable(doc) ==
    /\ {"page_content", "metadata"} \subseteq DOMAIN doc
    /\ RequiredKeys \subseteq DOMAIN doc.metadata

\* C23: every record of the index carries 'source' and 'title', and every
\* hit a search returns is a pair of a document (text and metadata with both
\* keys) and a score
C23_TraceabilityKeys ==
    /\ \A x \in StoredIds(vectorstore) : Traceable(vectorstore.docs[x])
    /\ lastOp.op \in {"search", "generate"} =>
           \A r \in 1..Len(lastOp.ret) :
               /\ DOMAIN lastOp.ret[r] = {"doc", "score"}
               /\ Traceable(lastOp.ret[r].doc)
               /\ lastOp.ret[r].doc.metadata.source \in {"pdf", "confluence"}

\* a search that returns a PDF chunk and a wiki chunk
C23_Witness ==
    /\ lastOp.op = "search"
    /\ lastOp.outcome = "ok"
    /\ {lastOp.ret[r].doc.metadata.source : r \in 1..Len(lastOp.ret)} = {"pdf", "confluence"}

(***************************************************************************)
(* SpecConf: the processor under every Confluence environment.  The        *)
(* components are constructed, and constructed again by 'Restart           *)
(* Components', under whatever the environment answers at that moment.     *)
(***************************************************************************)
InitConf ==
    /\ \E disk \in InitDisks :
        /\ diskFaiss = disk.faiss
        /\ diskPkl = disk.pkl
        /\ vectorstore = LoadExistingVectorstore(disk.faiss, disk.pkl)
        /\ lastOp = Op("init", LoadOutcome(disk.faiss, disk.pkl), <<>>, <<>>, <<>>, 0)
    /\ diskDir = TRUE
    /\ confEnv \in ConfEnvs
    /\ confluence_processor = ConfluenceInit(confEnv)
    /\ nextId = 1
    /\ ChunkIdle
    /\ ThreadsIdle

\* 'Restart Components' while the environment answers env
RestartUnder ==
    /\ \E env \in ConfEnvs :
        /\ confEnv' = env
        /\ confluence_processor' = ConfluenceInit(env)
    /\ vectorstore' = LoadExistingVectorstore(diskFaiss, diskPkl)
    /\ diskDir' = TRUE
    /\ lastOp' = Op("restart", LoadOutcome(diskFaiss, diskPkl), <<>>, <<>>, <<>>, 0)
    /\ UNCHANGED <<diskFaiss, diskPkl, nextId, cvars, thread>>

NextConf ==
    \/ AddConfluenceDocuments
    \/ RestartUnder
    \/ Search

SpecConf == InitConf /\ [][NextConf]_vars

\* C24, as the claim states it: after construction available is true exactly
\* when no error message is recorded, and an available processor has its
\* embeddings
C24_StatusCoherent ==
    /\ confluence_processor.available <=> (confluence_processor.error_message = None)
    /\ confluence_processor.available => confluence_processor.embeddings

\* the embedding model failed to load after the connection test had
\* succeeded, and a wiki ingest was attempted
C24_Witness ==
    /\ confEnv = "model_error"
    /\ confluence_processor.available
    /\ confluence_processor.error_message # None
    /\ ~confluence_processor.embeddings
    /\ lastOp.op = "wiki"
    /\ lastOp.outcome = "embed_error"

Loadable(request) ==
    {request[i] : i \in {j \in 1..Len(request) : request[j] \in DOMAIN PdfPages}}

\* C26: in an add_pdf_documents call a file that fails to load adds no
\* record, every page of every file that loads is among the records the call
\* adds (when it gets through chunking, embedding and merge), and a call in
\* which every file fails changes neither the index nor the files
C26_PerFileIsolation ==
    [][lastOp'.op = "pdf" =>
          /\ (Loadable(lastOp'.request) = {}) <=> (lastOp'.outcome = "no_documents")
          /\ Loadable(lastOp'.request) = {} =>
                 /\ vectorstore' = vectorstore
                 /\ diskFaiss' = diskFaiss
                 /\ diskPkl' = diskPkl
                 /\ diskDir' = diskDir
          /\ Merged(lastOp') =>
                 /\ \A x \in Range(lastOp'.newIds) :
                        vectorstore'.docs[x].metadata.file_path \in Loadable(lastOp'.request)
                 /\ \A path \in Loadable(lastOp'.request) :
                        \A page \in 1..Len(PdfPages[path]) :
                            \E x \in Range(lastOp'.newIds) :
                                /\ vectorstore'.docs[x].metadata.file_path = path
                                /\ vectorstore'.docs[x].metadata.page = page
                 /\ RecordCount(vectorstore') = RecordCount(vectorstore) + Len(lastOp'.newIds)]_vars

\* a call over a file that fails to load and one that loads: the records
\* added are those of the second
C26_Witness ==
    /\ lastOp.op = "pdf"
    /\ lastOp.outcome = "ok"
    /\ Len(lastOp.request) = 2
    /\ lastOp.request[1] \notin DOMAIN PdfPages
    /\ Loadable(lastOp.request) = {lastOp.request[2]}
    /\ lastOp.newIds # <<>>
    /\ \A x \in Range(lastOp.newIds) :
           vectorstore.docs[x].metadata.file_path = lastOp.request[2]

(***************************************************************************)
(* 'Clear Vector Store' (Spec).                                            *)
(***************************************************************************)
\* C27, as the claim states it: after 'Clear Vector Store' has removed the
\* directory, the processor's index is what the cleared files give, no index:
\* no documents reported loaded and no hits
C27_ClearedInMemory ==
    (lastOp.op = "clear" /\ lastOp.outcome = "ok") =>
        /\ vectorstore = LoadExistingVectorstore(diskFaiss, diskPkl)
        /\ ~vectorstore.exists
        /\ UiAnswer(QueryAB, DefaultK) = <<>>

\* the directory is gone and the processor still answers from two records
\* ingested before
C27_Witness ==
    /\ lastOp.op = "clear"
    /\ lastOp.outcome = "ok"
    /\ ~diskDir
    /\ diskFaiss.state = "absent"
    /\ vectorstore.exists
    /\ Len(UiAnswer(QueryAB, DefaultK)) = 2

(***************************************************************************)
(* The record count of a processor (Spec).                                 *)
(***************************************************************************)
\* the calls of one processor object
ProcessorCalls == Ingests \cup {"save", "search"}

\* C28: no call of add_pdf_documents, add_confluence_documents,
\* save_vectorstore or search_documents, failed calls included, lowers the
\* number of records of the in-memory index or makes an index absent
C28_CountNeverDecreases ==
    [][lastOp'.op \in ProcessorCalls =>
          /\ RecordCount(vectorstore') >= RecordCount(vectorstore)
          /\ vectorstore.exists => vectorstore'.exists
          /\ Merged(lastOp') => RecordCount(vectorstore') > RecordCount(vectorstore)
          /\ lastOp'.op \in {"save", "search"} =>
                 RecordCount(vectorstore') = RecordCount(vectorstore)]_vars

\* an ingest that failed in the splitter over an index of three records
C28_Witness ==
    /\ lastOp.op \in Ingests
    /\ lastOp.outcome = "split_error"
    /\ RecordCount(vectorstore) = 3
    /\ vectorstore.d = EmbedDim

C30_DocumentDisplayed ==
    (lastOp.op = "generate" /\ lastOp.result.returned) =>
        /\ HandlerReads \subseteq DOMAIN lastOp.result.metadata
        /\ Displayed(lastOp.result)

\* a result with all sections generated and three sources, whose metadata
\* has no 'llm_used'
C30_Witness ==
    /\ lastOp.op = "generate"
    /\ lastOp.result.returned
    /\ \A section_type \in SectionTypes :
           lastOp.result.sections[section_type] = "generated"
    /\ Len(lastOp.result.sources) = 3
    /\ "llm_used" \notin DOMAIN lastOp.result.metadata
    /\ ~Displayed(lastOp.result)

====
